---- MODULE Spec2Model ----
(***************************************************************************)
(* Account backend (accounts/views.py, accounts/serializers.py): register, *)
(* OTP e-mail verification, login, password reset, logout, account update  *)
(* and deletion, over the user table and the refresh-token blacklist.      *)
(*                                                                         *)
(* Time is counted in seconds.  Request payloads are drawn from values     *)
(* that pass the serializers' field checks on length and format (e-mails   *)
(* of 10..255 characters, passwords of 4..40 characters); the checks that  *)
(* read the store (e-mail uniqueness) are modelled.                        *)
(*                                                                         *)
(* The response of a handler is a function of the store it reads and of    *)
(* its payload: for every handler X, XOutcome is the response and the      *)
(* action X_... is the handler's effect on the store.  A request that is   *)
(* refused returns before it writes: it leaves the store as it is, and the *)
(* actions are guarded by the checks a request has to pass.                *)
(*                                                                         *)
(* Spec     : every request handler runs from start to end as one step.    *)
(* ConcSpec : the handlers that read a record and write it back later are  *)
(*            split at their store accesses, and requests interleave.      *)
(***************************************************************************)
EXTENDS Integers, FiniteSets, Sequences, TLC

VARIABLES
    users,      \* the user table: id -> row
    nextId,     \* the table's auto-increment primary key
    nextSalt,   \* the next fresh password salt
    now,        \* timezone.now(), in seconds
    sessions,   \* the token pairs Login has issued
    blacklist,  \* jti of the blacklisted refresh tokens
    mail,       \* the password-reset tokens sent out by e-mail
    spent,      \* history: reset tokens whose user has since set a new password
    inflight    \* ConcSpec: the requests that stand between two of their store accesses

vars == <<users, nextId, nextSalt, now, sessions, blacklist, mail, spent, inflight>>

(***************************************************************************)
(* Bounds of the model.                                                    *)
(***************************************************************************)
MaxId == 2
MaxSalt == 3
MaxTime == 901
MaxTokens == 1
MaxMail == 1
MaxInflight == 1

(***************************************************************************)
(* Values of the request payloads.                                         *)
(***************************************************************************)
\* Python's None, and a value that is set: a sequence of no or one element.
None == <<>>

Some(v) == <<v>>

The(opt) == opt[1]
Emails == {"ann@mail.com", "bob@mail.com"}
Names == {"Ann", "Bob"}
RegNames == {"Ann"}
RegPasswords == {"pw1234"}
Passwords == {"pw1234", "pw5678"}
Codes == {"A1B2C3", "Z9Y8X7"}
\* random.choices(ascii_uppercase + digits, k=6): the codes Register may draw.
GeneratedCodes == {"A1B2C3"}
Missing == ""

(***************************************************************************)
(* views.py:68-69  otp_valid_duration and timedelta(minutes=...).          *)
(***************************************************************************)
OtpValidDuration == 15

timedelta_minutes(m) == m * 60

TickSteps == {timedelta_minutes(OtpValidDuration), timedelta_minutes(OtpValidDuration) + 1}

(***************************************************************************)
(* The user table.                                                         *)
(***************************************************************************)
EmailExists(st, e) == \E i \in DOMAIN st : st[i].email = e

GetByEmail(st, e) == CHOOSE i \in DOMAIN st : st[i].email = e

\* make_password(raw): a salted hash; the salt is fresh on every call.
make_password(raw, salt) == [raw |-> raw, salt |-> salt]

check_password(raw, hash) == hash.raw = raw

\* The unique index on email: writing row rec would leave two rows with one email.
UniqueViolation(st, rec) ==
    \E i \in DOMAIN st : i # rec.id /\ st[i].email = rec.email

\* Model.save() of a loaded instance: UPDATE of every column WHERE id = pk,
\* and an INSERT of the row when the UPDATE matched no row.
ModelSave(st, rec) ==
    [i \in DOMAIN st \cup {rec.id} |-> IF i = rec.id THEN rec ELSE st[i]]

\* Model.delete(): DELETE WHERE id = pk.
ModelDelete(st, id) == [i \in DOMAIN st \ {id} |-> st[i]]

\* UserManager.create_user: a new row, unverified, without OTP.
create_user(id, full_name, email, password, salt) ==
    [id |-> id, email |-> email, full_name |-> full_name,
     password |-> make_password(password, salt),
     is_verified |-> FALSE, otp |-> None, otp_created_at |-> None]

Response(op, status, msg) == [op |-> op, status |-> status, msg |-> msg]

Init ==
    /\ users = <<>>
    /\ nextId = 1
    /\ nextSalt = 1
    /\ now = 0
    /\ sessions = {}
    /\ blacklist = {}
    /\ mail = {}
    /\ spent = {}
    /\ inflight = {}

\* The clock advances.
Tick ==
    /\ \E d \in TickSteps :
          /\ now + d <= MaxTime
          /\ now' = now + d
    /\ UNCHANGED <<users, nextId, nextSalt, sessions, blacklist, mail, spent, inflight>>

(***************************************************************************)
(* RegisterView.post with RegisterSerializer.                              *)
(***************************************************************************)
\* is_valid(): the unique-email validator of the model field, then validate().
RegisterValid(st, email, password1, password2) ==
    /\ ~EmailExists(st, email)
    /\ password1 = password2

RegisterOutcome(st, email, password1, password2, sent) ==
    IF EmailExists(st, email) THEN Response("Register", 400, "email_exists")
    ELSE IF password1 # password2 THEN Response("Register", 400, "password_mismatch")
    ELSE IF ~sent THEN Response("Register", 500, "send_mail_failed")
    ELSE Response("Register", 201, "created")

set_otp_without_timestamp(u, otp, t) == [u EXCEPT !.otp = Some(otp)]

\* views.py:31-32  user.otp = otp; user.otp_created_at = timezone.now()
set_otp(u, otp, t) == [u EXCEPT !.otp = Some(otp), !.otp_created_at = Some(t)]

\* views.py:28-33: serializer.save(), then the OTP is written by a second save().
Registered(st, id, full_name, email, password1, salt, otp, t) ==
    LET user == create_user(id, full_name, email, password1, salt)
    IN  ModelSave(ModelSave(st, user), set_otp(user, otp, t))

RegisterView_post(full_name, email, password1, password2, otp) ==
    /\ RegisterValid(users, email, password1, password2)
    /\ nextId <= MaxId
    /\ nextSalt <= MaxSalt
    /\ users' = Registered(users, nextId, full_name, email, password1, nextSalt, otp, now)
    /\ nextId' = nextId + 1
    /\ nextSalt' = nextSalt + 1
    /\ UNCHANGED <<now, sessions, blacklist, mail, spent, inflight>>

(***************************************************************************)
(* VerifyEmail.post                                                        *)
(***************************************************************************)
OtpValid_window_exclusive(u, otp_to_verify, t) ==
    /\ u.otp = Some(otp_to_verify)
    /\ t - The(u.otp_created_at) < timedelta_minutes(OtpValidDuration)

OtpValid_any_code(u, otp_to_verify, t) ==
    /\ u.otp # None
    /\ t - The(u.otp_created_at) <= timedelta_minutes(OtpValidDuration)

OtpValid_no_expiry(u, otp_to_verify, t) ==
    u.otp = Some(otp_to_verify)

\* views.py:69  the test that lets a verification through.
OtpValid(u, otp_to_verify, t) ==
    /\ u.otp = Some(otp_to_verify)
    /\ t - The(u.otp_created_at) <= timedelta_minutes(OtpValidDuration)

VerifyOutcome_subtracts_first(st, t, otp_to_verify, email) ==
    IF otp_to_verify = Missing \/ email = Missing
    THEN Response("VerifyOtp", 400, "missing_field")
    ELSE IF ~EmailExists(st, email)
    THEN Response("VerifyOtp", 400, "no_user")
    ELSE LET u == st[GetByEmail(st, email)]
         IN  IF u.otp_created_at = None
             THEN Response("VerifyOtp", 500, "TypeError")
             ELSE IF OtpValid(u, otp_to_verify, t)
             THEN Response("VerifyOtp", 200, "verified")
             ELSE Response("VerifyOtp", 400, "invalid_or_expired")

\* views.py:61-83  the response of VerifyEmail.post. In the test of line 69 the
\* `and` evaluates timezone.now() - user.otp_created_at only when the codes are
\* equal; with otp_created_at None that subtraction raises TypeError.
VerifyOutcome(st, t, otp_to_verify, email) ==
    IF otp_to_verify = Missing \/ email = Missing
    THEN Response("VerifyOtp", 400, "missing_field")
    ELSE IF ~EmailExists(st, email)
    THEN Response("VerifyOtp", 400, "no_user")
    ELSE LET u == st[GetByEmail(st, email)]
         IN  IF u.otp = Some(otp_to_verify) /\ u.otp_created_at = None
             THEN Response("VerifyOtp", 500, "TypeError")
             ELSE IF OtpValid(u, otp_to_verify, t)
             THEN Response("VerifyOtp", 200, "verified")
             ELSE Response("VerifyOtp", 400, "invalid_or_expired")

set_verified_consumes_otp(u) ==
    [u EXCEPT !.is_verified = TRUE, !.otp = None, !.otp_created_at = None]

\* views.py:70  user.is_verified = True, on the loaded instance.
set_verified(u) == [u EXCEPT !.is_verified = TRUE]

\* views.py:67-71  the row of that email, saved with is_verified set.
Verified(st, email) == ModelSave(st, set_verified(st[GetByEmail(st, email)]))

\* The user table after VerifyEmail.post.
VerifyEffect(st, t, otp_to_verify, email) ==
    IF VerifyOutcome(st, t, otp_to_verify, email).status = 200
    THEN Verified(st, email)
    ELSE st

VerifyEmail_post(otp_to_verify, email) ==
    /\ VerifyOutcome(users, now, otp_to_verify, email).status = 200
    /\ users' = VerifyEffect(users, now, otp_to_verify, email)
    /\ UNCHANGED <<nextId, nextSalt, now, sessions, blacklist, mail, spent, inflight>>

(***************************************************************************)
(* LoginView.post with LoginSerializer.validate                            *)
(***************************************************************************)
\* django.contrib.auth.authenticate: the row of that email when the password checks.
authenticate(st, email, password) ==
    IF EmailExists(st, email) /\ check_password(password, st[GetByEmail(st, email)].password)
    THEN Some(GetByEmail(st, email))
    ELSE None

LoginOutcome_no_verified_gate(st, email, password) ==
    IF authenticate(st, email, password) = None
    THEN Response("Login", 401, "invalid_credentials")
    ELSE Response("Login", 200, "tokens")

LoginOutcome(st, email, password) ==
    LET user == authenticate(st, email, password)
    IN  IF user = None THEN Response("Login", 401, "invalid_credentials")
        ELSE IF ~st[The(user)].is_verified THEN Response("Login", 401, "not_verified")
        ELSE Response("Login", 200, "tokens")

\* User.user_tokens(): a fresh refresh/access pair for the user; "verified" records
\* the user's is_verified when the pair was issued.
user_tokens(st, user, issued) ==
    [jti |-> Cardinality(issued) + 1, uid |-> user, verified |-> st[user].is_verified]

\* The issued pairs after LoginSerializer.validate.
LoginEffect(st, issued, email, password) ==
    IF LoginOutcome(st, email, password).status = 200
    THEN issued \cup {user_tokens(st, The(authenticate(st, email, password)), issued)}
    ELSE issued

LoginView_post(email, password) ==
    /\ LoginOutcome(users, email, password).status = 200
    /\ Cardinality(sessions) < MaxTokens
    /\ sessions' = LoginEffect(users, sessions, email, password)
    /\ UNCHANGED <<users, nextId, nextSalt, now, blacklist, mail, spent, inflight>>

(***************************************************************************)
(* Password reset: PasswordResetSerializer, ConfirmPasswordResetView,      *)
(* NewPasswordSerializer.                                                  *)
(***************************************************************************)
\* urlsafe_base64_encode(smart_bytes(user.id)) for the ids of the model.
B64 == <<"MQ", "Mg", "Mw", "NA", "NQ">>

urlsafe_base64_encode(id) == B64[id]

\* The uidb64 path segments a caller presents: the encoded ids, the encoding of
\* the text "abc", the encoding of the byte 0xFF, and a string that is not base64.
UidB64s == {urlsafe_base64_encode(i) : i \in 1..MaxId} \cup {"YWJj", "_w", "A"}

\* smart_str/force_str(urlsafe_base64_decode(uidb64)): the decoded id, or how it fails.
decode_uid(uidb64) ==
    IF \E i \in 1..Len(B64) : B64[i] = uidb64
    THEN [kind |-> "id", id |-> CHOOSE i \in 1..Len(B64) : B64[i] = uidb64]
    ELSE IF uidb64 = "YWJj" THEN [kind |-> "not_a_number", id |-> 0]
    ELSE IF uidb64 = "_w" THEN [kind |-> "DjangoUnicodeDecodeError", id |-> 0]
    ELSE [kind |-> "not_base64", id |-> 0]

\* decode_uid, tabulated over the path segments of the model.
Decoded == [u \in UidB64s |-> decode_uid(u)]

\* PasswordResetTokenGenerator().make_token(user): a keyed hash of the user's pk,
\* password hash and email (last_login is never written; the token's age stays
\* under PASSWORD_RESET_TIMEOUT over the times of the model).
make_token(u) == [uid |-> u.id, password |-> u.password, email |-> u.email]

\* A token string that no make_token produced.
Forged == [uid |-> 0, password |-> make_password("none", 0), email |-> "none"]

\* PasswordResetTokenGenerator().check_token(user, token)
check_token(u, token) == token = make_token(u)

\* The reset links a caller presents: the links that were mailed, and links with
\* a token of the caller's own making for every uidb64.
Links ==
    {[uidb64 |-> urlsafe_base64_encode(t.uid), token |-> t] : t \in mail}
    \cup {[uidb64 |-> u, token |-> Forged] : u \in UidB64s}

ResetRequestOutcome(sent) ==
    IF sent THEN Response("RequestPasswordReset", 200, "ack")
    ELSE Response("RequestPasswordReset", 500, "send_failed")

PasswordResetView_post(email, sent) ==
    /\ EmailExists(users, email)
    /\ sent
    /\ LET token == make_token(users[GetByEmail(users, email)])
       IN  /\ token \in mail \/ Cardinality(mail) < MaxMail
           /\ mail' = mail \cup {token}
    /\ UNCHANGED <<users, nextId, nextSalt, now, sessions, blacklist, spent, inflight>>

ConfirmOutcome(st, uidb64, token) ==
    LET d == Decoded[uidb64]
    IN  IF d.kind = "not_base64" THEN Response("ConfirmPasswordReset", 500, "ValueError")
        ELSE IF d.kind = "DjangoUnicodeDecodeError"
        THEN Response("ConfirmPasswordReset", 401, "token_has_expired")
        ELSE IF d.kind = "not_a_number" THEN Response("ConfirmPasswordReset", 500, "ValueError")
        ELSE IF d.id \notin DOMAIN st THEN Response("ConfirmPasswordReset", 500, "DoesNotExist")
        ELSE IF ~check_token(st[d.id], token)
        THEN Response("ConfirmPasswordReset", 401, "token_is_expired")
        ELSE Response("ConfirmPasswordReset", 200, "valid")

ConfirmPasswordResetView_get(uidb64, token) ==
    /\ ConfirmOutcome(users, uidb64, token).status = 200
    /\ UNCHANGED vars

NewPasswordAccepted_ignores_confirm(st, password, password_confirm, uidb64, token) ==
    LET d == Decoded[uidb64]
    IN  /\ d.kind = "id"
        /\ d.id \in DOMAIN st
        /\ check_token(st[d.id], token)

\* NewPasswordSerializer.validate, lines 170-175: TRUE when the try block reaches
\* set_password, FALSE when one of its statements raises.
NewPasswordAccepted(st, password, password_confirm, uidb64, token) ==
    LET d == Decoded[uidb64]
    IN  /\ d.kind = "id"
        /\ d.id \in DOMAIN st
        /\ check_token(st[d.id], token)
        /\ password = password_confirm

\* NewPasswordSerializer.validate, lines 178-180, and NewPasswordView.patch: on
\* success validate returns the user; the except clause returns the exception
\* instead of raising it.  Either way is_valid() passes and the view answers 200.
NewPasswordOutcome(accepted) ==
    IF accepted THEN Response("SetNewPassword", 200, "password_reset_successfully")
    ELSE Response("SetNewPassword", 200, "password_reset_successfully")

set_password_marks_verified(u, password, salt) ==
    [u EXCEPT !.password = make_password(password, salt), !.is_verified = TRUE]

\* serializers.py:176  user.set_password(password), on the loaded instance.
set_password(u, password, salt) == [u EXCEPT !.password = make_password(password, salt)]

\* serializers.py:171-177  the row of that id, saved with the new password.
PasswordSet(st, id, password, salt) == ModelSave(st, set_password(st[id], password, salt))

\* The user table after NewPasswordSerializer.validate.
NewPasswordEffect(st, password, password_confirm, uidb64, token, salt) ==
    IF NewPasswordAccepted(st, password, password_confirm, uidb64, token)
    THEN PasswordSet(st, Decoded[uidb64].id, password, salt)
    ELSE st

NewPasswordView_patch(password, password_confirm, uidb64, token) ==
    /\ NewPasswordAccepted(users, password, password_confirm, uidb64, token)
    /\ nextSalt <= MaxSalt
    /\ users' = NewPasswordEffect(users, password, password_confirm, uidb64, token, nextSalt)
    /\ nextSalt' = nextSalt + 1
    /\ spent' = spent \cup {t \in mail : t.uid = Decoded[uidb64].id}
    /\ UNCHANGED <<nextId, now, sessions, blacklist, mail, inflight>>

(***************************************************************************)
(* LogoutView.post with LogoutSerializer.save                              *)
(***************************************************************************)
\* A refresh_token string that is no signed token.
Garbage == 0

TokenError_blacklist_unchecked(issued, revoked, refresh_token) ==
    ~(\E s \in issued : s.jti = refresh_token)

\* RefreshToken(self.token): TokenError for a string that is no signed token and
\* for a token whose jti is blacklisted.
TokenError(issued, revoked, refresh_token) ==
    \/ ~(\E s \in issued : s.jti = refresh_token)
    \/ refresh_token \in revoked

\* serializers.py:201-202 with views.py:131-132: self.fail("bad_token") raises a
\* ValidationError, which the view answers with 400.
LogoutOutcome(issued, revoked, refresh_token) ==
    IF TokenError(issued, revoked, refresh_token)
    THEN Response("Logout", 400, "bad_token")
    ELSE Response("Logout", 200, "empty")

\* The blacklist after LogoutSerializer.save: token.blacklist() when no TokenError.
LogoutEffect(issued, revoked, refresh_token) ==
    IF LogoutOutcome(issued, revoked, refresh_token).status = 200
    THEN revoked \cup {refresh_token}
    ELSE revoked

LogoutView_post(refresh_token) ==
    /\ LogoutOutcome(sessions, blacklist, refresh_token).status = 200
    /\ blacklist' = LogoutEffect(sessions, blacklist, refresh_token)
    /\ UNCHANGED <<users, nextId, nextSalt, now, sessions, mail, spent, inflight>>

(***************************************************************************)
(* The authenticated views: UpdateInformationView, DeleteAccountView,      *)
(* DashboardView.  The caller presents the access token of a pair Login    *)
(* issued; JWT authentication loads request.user by the token's user id.   *)
(***************************************************************************)
IsAuthenticated(st, s) == s.uid \in DOMAIN st

\* A field the partial update does not carry.
NotPresent == "NotPresent"

validate_email_unchecked(st, value) == TRUE

\* UpdateAccountInfoSerializer.validate_email
validate_email(st, value) == ~EmailExists(st, value)

UpdateOutcome(st, s, email) ==
    IF ~IsAuthenticated(st, s) THEN Response("UpdateAccountInfo", 401, "user_not_found")
    ELSE IF email # NotPresent /\ ~validate_email(st, email)
    THEN Response("UpdateAccountInfo", 400, "email_in_use")
    ELSE Response("UpdateAccountInfo", 200, "updated")

Updated_resets_verified(u, full_name, email) ==
    [u EXCEPT !.full_name = IF full_name = NotPresent THEN @ ELSE full_name,
              !.email = IF email = NotPresent THEN @ ELSE email,
              !.is_verified = IF email = NotPresent THEN @ ELSE FALSE]

\* ModelSerializer.update with partial=True: the fields present are assigned.
Updated(u, full_name, email) ==
    [u EXCEPT !.full_name = IF full_name = NotPresent THEN @ ELSE full_name,
              !.email = IF email = NotPresent THEN @ ELSE email]

\* The user table after UpdateInformationView.patch.
UpdateEffect(st, s, full_name, email) ==
    IF UpdateOutcome(st, s, email).status = 200
    THEN ModelSave(st, Updated(st[s.uid], full_name, email))
    ELSE st

UpdateInformationView_patch(s, full_name, email) ==
    /\ UpdateOutcome(users, s, email).status = 200
    /\ users' = UpdateEffect(users, s, full_name, email)
    /\ UNCHANGED <<nextId, nextSalt, now, sessions, blacklist, mail, spent, inflight>>

DeleteOutcome(st, s) ==
    IF IsAuthenticated(st, s) THEN Response("DeleteAccount", 204, "deleted")
    ELSE Response("DeleteAccount", 401, "user_not_found")

DeleteAccountView_delete(s) ==
    /\ DeleteOutcome(users, s).status = 204
    /\ users' = ModelDelete(users, s.uid)
    /\ UNCHANGED <<nextId, nextSalt, now, sessions, blacklist, mail, spent, inflight>>

DashboardOutcome(st, s) ==
    IF IsAuthenticated(st, s) THEN Response("Dashboard", 200, "profile")
    ELSE Response("Dashboard", 401, "user_not_found")

DashboardView_get(s) ==
    /\ DashboardOutcome(users, s).status = 200
    /\ UNCHANGED vars

Next ==
    \/ Tick
    \/ \E n \in RegNames, e \in Emails, p1 \in RegPasswords, p2 \in Passwords,
          o \in GeneratedCodes :
          RegisterView_post(n, e, p1, p2, o)
    \/ \E o \in Codes \cup {Missing}, e \in Emails \cup {Missing} : VerifyEmail_post(o, e)
    \/ \E e \in Emails, p \in Passwords : LoginView_post(e, p)
    \/ \E e \in Emails, s \in BOOLEAN : PasswordResetView_post(e, s)
    \/ \E l \in Links : ConfirmPasswordResetView_get(l.uidb64, l.token)
    \/ \E p \in Passwords, pc \in Passwords, l \in Links :
          NewPasswordView_patch(p, pc, l.uidb64, l.token)
    \/ \E r \in {s.jti : s \in sessions} \cup {Garbage} : LogoutView_post(r)
    \/ \E s \in sessions, n \in Names \cup {NotPresent}, e \in Emails \cup {NotPresent} :
          UpdateInformationView_patch(s, n, e)
    \/ \E s \in sessions : DeleteAccountView_delete(s)
    \/ \E s \in sessions : DashboardView_get(s)

Spec == Init /\ [][Next]_vars

(***************************************************************************)
(* The claims.  A request is named by its payload; its response is the     *)
(* handler's XOutcome and the store after it the handler's XEffect, both   *)
(* taken in the state the request arrives in.                              *)
(***************************************************************************)
WithinWindow(u, t) ==
    u.otp_created_at # None /\ t - The(u.otp_created_at) <= 15 * 60

\* C1: a VerifyOtp carrying a user's email and exactly the stored OTP, made when
\* now - otp_created_at is at most 15 minutes (boundary included), succeeds, and
\* after it the user's is_verified is true.
C1_VerifyWithinWindowSucceeds ==
    \A i \in DOMAIN users, o \in Codes :
        (users[i].otp = Some(o) /\ WithinWindow(users[i], now))
        => /\ VerifyOutcome(users, now, o, users[i].email) =
                 Response("VerifyOtp", 200, "verified")
           /\ i \in DOMAIN VerifyEffect(users, now, o, users[i].email)
           /\ VerifyEffect(users, now, o, users[i].email)[i].is_verified

\* An unverified user holds an OTP that is exactly 15 minutes old, and the
\* VerifyOtp with that code is answered "verified" and saves is_verified.
C1_Witness ==
    \E i \in DOMAIN users, o \in Codes :
        /\ ~users[i].is_verified
        /\ users[i].otp = Some(o)
        /\ now - The(users[i].otp_created_at) = 15 * 60
        /\ VerifyOutcome(users, now, o, users[i].email).status = 200
        /\ VerifyEffect(users, now, o, users[i].email)[i].is_verified

\* C2: every VerifyOtp made more than 15 minutes after otp_created_at fails with
\* the invalid/expired outcome, whether or not the code is the stored one, and
\* does not set is_verified (the table is left as it is).
C2_VerifyAfterWindowFails ==
    \A i \in DOMAIN users, o \in Codes :
        (users[i].otp_created_at # None /\ now - The(users[i].otp_created_at) > 15 * 60)
        => /\ VerifyOutcome(users, now, o, users[i].email) =
                 Response("VerifyOtp", 400, "invalid_or_expired")
           /\ VerifyEffect(users, now, o, users[i].email) = users

\* An unverified user holds an OTP that is 15 minutes and one second old, and
\* the VerifyOtp with that very code is refused.
C2_Witness ==
    \E i \in DOMAIN users, o \in Codes :
        /\ ~users[i].is_verified
        /\ users[i].otp = Some(o)
        /\ now - The(users[i].otp_created_at) = 15 * 60 + 1
        /\ VerifyOutcome(users, now, o, users[i].email).status = 400

\* C3: Login issues a token pair only to a user whose credentials authenticate
\* and who is verified at that time; for an unverified user Login fails
\* (not_verified when the credentials are right) and issues nothing; every
\* issued pair belongs to a user that was verified when it was issued.
C3_LoginOnlyVerified ==
    /\ \A s \in sessions : s.verified
    /\ \A e \in Emails, p \in Passwords :
          /\ LoginOutcome(users, e, p).status = 200
             => \E i \in DOMAIN users :
                   /\ users[i].email = e
                   /\ check_password(p, users[i].password)
                   /\ users[i].is_verified
          /\ \A i \in DOMAIN users :
                (users[i].email = e /\ ~users[i].is_verified)
                => /\ LoginOutcome(users, e, p).status = 401
                   /\ LoginEffect(users, sessions, e, p) = sessions
                   /\ check_password(p, users[i].password)
                      => LoginOutcome(users, e, p).msg = "not_verified"

\* A pair has been issued to a verified user, and a Login with the right
\* password of an unverified user is answered not_verified.
C3_Witness ==
    /\ \E s \in sessions : s.uid \in DOMAIN users /\ users[s.uid].is_verified
    /\ \E i \in DOMAIN users, p \in Passwords :
          /\ ~users[i].is_verified
          /\ check_password(p, users[i].password)
          /\ LoginOutcome(users, users[i].email, p).msg = "not_verified"

\* C4 (as claimed): once a user's password has been changed by a successful
\* SetNewPassword, every ConfirmPasswordResetLink and every SetNewPassword that
\* presents a reset token issued for that user before the change fails, and the
\* password is not changed again.
C4_SpentTokenFails ==
    \A t \in spent, u \in UidB64s, p \in Passwords, pc \in Passwords :
        /\ ConfirmOutcome(users, u, t).status # 200
        /\ ~NewPasswordAccepted(users, p, pc, u, t)
        /\ NewPasswordOutcome(NewPasswordAccepted(users, p, pc, u, t)).status # 200

\* C5 (as claimed): SetNewPassword reports success exactly when uidb64 decodes to
\* an existing user, the token verifies against that user's current state and
\* password equals password_confirm; in every other case it reports a failure.
C5_SetNewPasswordReportsFailure ==
    \A p \in Passwords, pc \in Passwords, u \in UidB64s, t \in mail \cup {Forged} :
        NewPasswordOutcome(NewPasswordAccepted(users, p, pc, u, t)).status = 200
        <=> NewPasswordAccepted(users, p, pc, u, t)

\* The refresh tokens Login has issued that are not blacklisted.
ValidRefreshTokens == {s.jti : s \in sessions} \ blacklist

LogoutTwice ==
    /\ \A r \in ValidRefreshTokens :
          LET once == LogoutEffect(sessions, blacklist, r)
          IN  /\ LogoutOutcome(sessions, blacklist, r) = Response("Logout", 200, "empty")
              /\ once = blacklist \cup {r}
              /\ LogoutOutcome(sessions, once, r) = Response("Logout", 400, "bad_token")
              /\ LogoutEffect(sessions, once, r) = once
    /\ \A r \in blacklist :
          /\ LogoutOutcome(sessions, blacklist, r) = Response("Logout", 400, "bad_token")
          /\ LogoutEffect(sessions, blacklist, r) = blacklist

SuccessfulVerifyOtp(email) ==
    \E o \in Codes :
        /\ VerifyOutcome(users, now, o, email).status = 200
        /\ VerifyEmail_post(o, email)

\* C8: with the handlers run one at a time, a record's is_verified goes from
\* false to true only in a step that is a successful VerifyOtp for that record's
\* email; a record that appears is unverified; no step takes is_verified from
\* true to false.
C8_VerifiedOnlyByVerifyOtp ==
    [][\A i \in DOMAIN users' :
          IF i \in DOMAIN users
          THEN /\ users[i].is_verified => users'[i].is_verified
               /\ (~users[i].is_verified /\ users'[i].is_verified)
                  => SuccessfulVerifyOtp(users[i].email)
          ELSE ~users'[i].is_verified]_vars

\* One user is verified; another has had SetNewPassword store a new password
\* and is still unverified.
C8_Witness ==
    \E i \in DOMAIN users, j \in DOMAIN users :
        /\ users[i].is_verified
        /\ ~users[j].is_verified
        /\ \E t \in spent : t.uid = j /\ users[j].password # t.password

\* C9 (as claimed): after a VerifyOtp with the stored code has succeeded for a
\* user, a further VerifyOtp for that user with the same code does not succeed.
C9_VerifiesOncePerIssuance ==
    \A i \in DOMAIN users, o \in Codes :
        VerifyOutcome(users, now, o, users[i].email).status = 200
        => VerifyOutcome(VerifyEffect(users, now, o, users[i].email), now, o,
                         users[i].email).status # 200

\* C9 (amended): after a VerifyOtp with the stored code has succeeded for a
\* user, a further VerifyOtp for that user with the same code succeeds again as
\* long as now - otp_created_at is at most 15 minutes, and fails with the
\* invalid/expired outcome after that; either way it leaves the record as it is.
C9_VerifiesAgainWithinWindow ==
    /\ \A i \in DOMAIN users, o \in Codes :
          VerifyOutcome(users, now, o, users[i].email).status = 200
          => LET st == VerifyEffect(users, now, o, users[i].email)
             IN  \A t \in {now} \cup {now + d : d \in TickSteps} :
                    /\ VerifyOutcome(st, t, o, users[i].email) =
                          IF t - The(users[i].otp_created_at) <= 15 * 60
                          THEN Response("VerifyOtp", 200, "verified")
                          ELSE Response("VerifyOtp", 400, "invalid_or_expired")
                    /\ VerifyEffect(st, t, o, users[i].email) = st
    /\ \A i \in DOMAIN users, o \in Codes :
          (users[i].is_verified /\ users[i].otp = Some(o))
          => /\ VerifyOutcome(users, now, o, users[i].email) =
                   IF WithinWindow(users[i], now)
                   THEN Response("VerifyOtp", 200, "verified")
                   ELSE Response("VerifyOtp", 400, "invalid_or_expired")
             /\ VerifyEffect(users, now, o, users[i].email) = users

\* A user that VerifyOtp has verified still holds the code, inside the window,
\* and a VerifyOtp with it is answered "verified" once more.
C9_Witness ==
    \E i \in DOMAIN users, o \in Codes :
        /\ users[i].is_verified
        /\ users[i].otp = Some(o)
        /\ WithinWindow(users[i], now)
        /\ VerifyOutcome(users, now, o, users[i].email).status = 200


(***************************************************************************)
(* ConcSpec.  Register, VerifyOtp, SetNewPassword and UpdateAccountInfo    *)
(* load or create a row, work on the instance in memory and save() it in   *)
(* a later statement; other requests run between the two.  A request in    *)
(* inflight carries its instance; pc names its next store access.          *)
(***************************************************************************)
Begin(r) ==
    /\ r \notin inflight
    /\ Cardinality(inflight) < MaxInflight
    /\ inflight' = inflight \cup {r}

\* save() of an instance: the response when the unique index refuses the write.
SaveOutcome(st, rec, done) ==
    IF UniqueViolation(st, rec) THEN Response(done.op, 500, "IntegrityError") ELSE done

\* The last statement of a request: its instance is saved, unless the unique
\* index refuses the write, and the request ends.
SaveAndEnd(r, rec) ==
    /\ users' = IF UniqueViolation(users, rec) THEN users ELSE ModelSave(users, rec)
    /\ inflight' = inflight \ {r}

\* views.py:26-27  serializer.is_valid()
Register_is_valid(full_name, email, password1, password2) ==
    /\ RegisterValid(users, email, password1, password2)
    /\ Begin([pc |-> "create", full_name |-> full_name, email |-> email,
              password |-> password1])
    /\ UNCHANGED <<users, nextId, nextSalt, now, sessions, blacklist, mail, spent>>

\* serializers.py:43-47  create_user: the INSERT, which the unique index may refuse.
CreateOutcome(st, r) ==
    IF EmailExists(st, r.email) THEN Response("Register", 500, "IntegrityError")
    ELSE Response("Register", 201, "created")

\* views.py:28  serializer.save()
Register_create(r) ==
    /\ r.pc = "create"
    /\ IF CreateOutcome(users, r).status = 201
       THEN /\ nextId <= MaxId
            /\ nextSalt <= MaxSalt
            /\ users' = ModelSave(users, create_user(nextId, r.full_name, r.email,
                                                     r.password, nextSalt))
            /\ nextId' = nextId + 1
            /\ nextSalt' = nextSalt + 1
            /\ inflight' = (inflight \ {r}) \cup
                  {[pc |-> "save_otp",
                    user |-> create_user(nextId, r.full_name, r.email, r.password, nextSalt)]}
       ELSE /\ inflight' = inflight \ {r}
            /\ UNCHANGED <<users, nextId, nextSalt>>
    /\ UNCHANGED <<now, sessions, blacklist, mail, spent>>

\* views.py:30-33
Register_save_otp(r, otp) ==
    /\ r.pc = "save_otp"
    /\ SaveAndEnd(r, set_otp(r.user, otp, now))
    /\ UNCHANGED <<nextId, nextSalt, now, sessions, blacklist, mail, spent>>

\* views.py:67-70  the row is loaded and checked, is_verified is set on the instance.
Verify_get(otp_to_verify, email) ==
    /\ VerifyOutcome(users, now, otp_to_verify, email).status = 200
    /\ Begin([pc |-> "save_verified",
              user |-> set_verified(users[GetByEmail(users, email)])])
    /\ UNCHANGED <<users, nextId, nextSalt, now, sessions, blacklist, mail, spent>>

\* views.py:71
Verify_save(r) ==
    /\ r.pc = "save_verified"
    /\ SaveAndEnd(r, r.user)
    /\ UNCHANGED <<nextId, nextSalt, now, sessions, blacklist, mail, spent>>

\* serializers.py:170-176  the row is loaded and checked, set_password on the instance.
NewPassword_get(password, password_confirm, uidb64, token) ==
    /\ NewPasswordAccepted(users, password, password_confirm, uidb64, token)
    /\ nextSalt <= MaxSalt
    /\ Begin([pc |-> "save_password",
              user |-> set_password(users[Decoded[uidb64].id], password, nextSalt)])
    /\ nextSalt' = nextSalt + 1
    /\ UNCHANGED <<users, nextId, now, sessions, blacklist, mail, spent>>

\* serializers.py:177
NewPassword_save(r) ==
    /\ r.pc = "save_password"
    /\ SaveAndEnd(r, r.user)
    /\ spent' = spent \cup {t \in mail : t.uid = r.user.id}
    /\ UNCHANGED <<nextId, nextSalt, now, sessions, blacklist, mail>>

\* views.py:139-141  request.user is loaded, the serializer validates and assigns.
Update_is_valid(s, full_name, email) ==
    /\ UpdateOutcome(users, s, email).status = 200
    /\ Begin([pc |-> "save_update", user |-> Updated(users[s.uid], full_name, email)])
    /\ UNCHANGED <<users, nextId, nextSalt, now, sessions, blacklist, mail, spent>>

\* views.py:142
Update_save(r) ==
    /\ r.pc = "save_update"
    /\ SaveAndEnd(r, r.user)
    /\ UNCHANGED <<nextId, nextSalt, now, sessions, blacklist, mail, spent>>

\* A request may also run from start to end with no other request in between.
ConcNext ==
    \/ Tick
    \/ \E n \in RegNames, e \in Emails, p1 \in RegPasswords, p2 \in Passwords,
          o \in GeneratedCodes :
          RegisterView_post(n, e, p1, p2, o)
    \/ \E o \in Codes \cup {Missing}, e \in Emails \cup {Missing} : VerifyEmail_post(o, e)
    \/ \E p \in Passwords, pc \in Passwords, l \in Links :
          NewPasswordView_patch(p, pc, l.uidb64, l.token)
    \/ \E s \in sessions, n \in Names \cup {NotPresent}, e \in Emails \cup {NotPresent} :
          UpdateInformationView_patch(s, n, e)
    \/ \E n \in RegNames, e \in Emails, p1 \in RegPasswords, p2 \in Passwords :
          Register_is_valid(n, e, p1, p2)
    \/ \E r \in inflight : Register_create(r)
    \/ \E r \in inflight, o \in GeneratedCodes : Register_save_otp(r, o)
    \/ \E o \in Codes, e \in Emails : Verify_get(o, e)
    \/ \E r \in inflight : Verify_save(r)
    \/ \E p \in Passwords, pc \in Passwords, l \in Links :
          NewPassword_get(p, pc, l.uidb64, l.token)
    \/ \E r \in inflight : NewPassword_save(r)
    \/ \E s \in sessions, n \in Names \cup {NotPresent}, e \in Emails \cup {NotPresent} :
          Update_is_valid(s, n, e)
    \/ \E r \in inflight : Update_save(r)
    \/ \E e \in Emails, p \in Passwords : LoginView_post(e, p)
    \/ \E e \in Emails, s \in BOOLEAN : PasswordResetView_post(e, s)
    \/ \E l \in Links : ConfirmPasswordResetView_get(l.uidb64, l.token)
    \/ \E r \in {s.jti : s \in sessions} \cup {Garbage} : LogoutView_post(r)
    \/ \E s \in sessions : DeleteAccountView_delete(s)
    \/ \E s \in sessions : DashboardView_get(s)

ConcSpec == Init /\ [][ConcNext]_vars

\* C7 (as claimed): once DeleteAccount has removed a record, no later step makes
\* a record with that id exist again, and every record that appears has the
\* next new id and is unverified.
C7_DeletionTerminal ==
    [][/\ \A i \in 1..(nextId - 1) : i \notin DOMAIN users => i \notin DOMAIN users'
       /\ \A i \in DOMAIN users' \ DOMAIN users :
             i = nextId /\ ~users'[i].is_verified]_vars

\* C10 (as claimed): a Register with an email that a record already holds is
\* refused with the conflict response, also when the record appeared after the
\* request's own validation; the store never holds two records with one email.
C10_DuplicateRegisterConflict ==
    /\ \A e \in Emails, p1 \in Passwords, p2 \in Passwords, sent \in BOOLEAN :
          EmailExists(users, e)
          => /\ RegisterOutcome(users, e, p1, p2, sent) =
                   Response("Register", 400, "email_exists")
             /\ ~RegisterValid(users, e, p1, p2)
    /\ \A r \in inflight :
          (r.pc = "create" /\ EmailExists(users, r.email))
          => CreateOutcome(users, r).status = 400
    /\ \A i \in DOMAIN users, j \in DOMAIN users :
          users[i].email = users[j].email => i = j

C12_SendFailureNotReported ==
    /\ \A e \in Emails, p \in Passwords :
          RegisterValid(users, e, p, p)
          => RegisterOutcome(users, e, p, p, FALSE) = Response("Register", 201, "created")
    /\ ResetRequestOutcome(FALSE) = Response("RequestPasswordReset", 200, "ack")

\* C13 (as claimed): ConfirmPasswordResetLink answers every request with one of
\* its defined results: the invalid-link failure when uidb64 cannot be decoded
\* or names no existing user, the expired failure when the token does not
\* verify against the user, the confirmation otherwise; never a fault.
C13_ConfirmNeverFaults ==
    \A u \in UidB64s, t \in mail \cup {Forged} :
        LET d == Decoded[u]
            out == ConfirmOutcome(users, u, t)
        IN  /\ out.status # 500
            /\ IF d.kind # "id" \/ d.id \notin DOMAIN users
               THEN out.status = 401
               ELSE IF ~check_token(users[d.id], t)
               THEN out = Response("ConfirmPasswordReset", 401, "token_is_expired")
               ELSE out = Response("ConfirmPasswordReset", 200, "valid")

\* C14: in every state reached by interleaved requests, the state between
\* Register's two writes included, every record has otp and otp_created_at
\* both set or both unset.
C14_OtpPairTogether ==
    \A i \in DOMAIN users : (users[i].otp = None) <=> (users[i].otp_created_at = None)

\* Register has created its record and not yet written the OTP (both fields
\* unset), while another record holds both fields.
C14_Witness ==
    /\ \E r \in inflight :
          /\ r.pc = "save_otp"
          /\ r.user.id \in DOMAIN users
          /\ users[r.user.id].otp = None
          /\ users[r.user.id].otp_created_at = None
    /\ \E i \in DOMAIN users : users[i].otp # None /\ users[i].otp_created_at # None

\* The VerifyOtp with this payload is one that has to fail: a field is missing,
\* no record holds the email, the code is not the stored one, or the window
\* of 15 minutes is over.
MustFail(otp_to_verify, email) ==
    \/ otp_to_verify = Missing
    \/ email = Missing
    \/ ~EmailExists(users, email)
    \/ users[GetByEmail(users, email)].otp # Some(otp_to_verify)
    \/ ~WithinWindow(users[GetByEmail(users, email)], now)

\* C15: every VerifyOtp that fails (missing otp or email, unknown email, code
\* mismatch, expired window) is refused with 400 and leaves every record as
\* it was; a request without otp or email is refused as such whatever the table
\* holds.
C15_FailedVerifyChangesNothing ==
    \A o \in Codes \cup {Missing}, e \in Emails \cup {Missing} :
        /\ MustFail(o, e)
           => /\ VerifyOutcome(users, now, o, e).status = 400
              /\ VerifyEffect(users, now, o, e) = users
        /\ (o = Missing \/ e = Missing)
           => VerifyOutcome(users, now, o, e) = Response("VerifyOtp", 400, "missing_field")

\* An unverified record holds a code inside its window, and a VerifyOtp with
\* another code is refused as invalid.
C15_Witness ==
    \E i \in DOMAIN users, o \in Codes :
        /\ ~users[i].is_verified
        /\ users[i].otp # None
        /\ users[i].otp # Some(o)
        /\ WithinWindow(users[i], now)
        /\ VerifyOutcome(users, now, o, users[i].email).msg = "invalid_or_expired"
        /\ VerifyEffect(users, now, o, users[i].email) = users

\* The link names user i and its token verifies against that user's record.
ValidLinkFor(i, uidb64, token) ==
    /\ Decoded[uidb64].kind = "id"
    /\ Decoded[uidb64].id = i
    /\ i \in DOMAIN users
    /\ check_token(users[i], token)

\* A SetNewPassword with an invalid token, an unknown user id or mismatching
\* passwords stores nothing: the table it leaves is the table it found, every
\* hash included, and in that table the password of every record still
\* authenticates its email.
RefusedSetNewPasswordKeepsHash ==
    /\ \A i \in DOMAIN users, old \in Passwords :
          check_password(old, users[i].password)
          => authenticate(users, users[i].email, old) = Some(i)
    /\ \A u \in UidB64s, t \in mail \cup {Forged} :
          LET valid == \E i \in DOMAIN users : ValidLinkFor(i, u, t)
          IN  \A p \in Passwords, pc \in Passwords :
                  (p # pc \/ ~valid)
                  => NewPasswordEffect(users, p, pc, u, t, nextSalt) = users

\* The step that changes the hash of record i is a SetNewPassword with a link
\* valid for i and with password equal to password_confirm.
HashChangedBySetNewPassword(i) ==
    \E p \in Passwords, u \in UidB64s, t \in mail :
        /\ ValidLinkFor(i, u, t)
        /\ NewPasswordView_patch(p, p, u, t)
        /\ check_password(p, users'[i].password)

\* C16: with the handlers run one at a time, a record's password hash changes
\* only in a step that is a SetNewPassword whose token verifies against the
\* record and whose password equals password_confirm; a SetNewPassword with an
\* invalid token, an unknown user id or mismatching passwords leaves every
\* hash unchanged, and the old password still authenticates.
C16_HashChangesOnlyBySetNewPassword ==
    /\ []RefusedSetNewPasswordKeepsHash
    /\ [][\A i \in DOMAIN users \cap DOMAIN users' :
             users'[i].password # users[i].password => HashChangedBySetNewPassword(i)]_vars

\* A SetNewPassword has stored a new hash: the spent token's hash is no longer
\* the record's, the new password authenticates and the old one does not.
C16_Witness ==
    \E t \in spent :
        /\ t.uid \in DOMAIN users
        /\ users[t.uid].password # t.password
        /\ \E p \in Passwords : authenticate(users, users[t.uid].email, p) = Some(t.uid)

\* C17 (as claimed): once a SetNewPassword has stored a new hash for a user, no
\* request that read the record before the change and saves it afterwards
\* brings the old hash back: the stored hash differs from the hash of every
\* reset token issued before the change, and none of these tokens verifies.
C17_PasswordChangeNotUndone ==
    \A t \in spent :
        t.uid \in DOMAIN users
        => /\ users[t.uid].password # t.password
           /\ ~check_token(users[t.uid], t)

\* C18: for a record that exists with otp and otp_created_at unset, as between
\* Register's record creation and its OTP write, a VerifyOtp with the record's
\* email and any non-empty code answers invalid/expired, does not fault and
\* leaves the store, is_verified included, as it was.
C18_VerifyBeforeOtpWriteFails ==
    \A i \in DOMAIN users :
        (users[i].otp = None /\ users[i].otp_created_at = None)
        => \A o \in Codes :
              /\ VerifyOutcome(users, now, o, users[i].email) =
                    Response("VerifyOtp", 400, "invalid_or_expired")
              /\ VerifyEffect(users, now, o, users[i].email) = users
              /\ ~VerifyEffect(users, now, o, users[i].email)[i].is_verified

\* A Register has created its record and not yet written the OTP, and a
\* VerifyOtp for that record's email is answered invalid/expired.
C18_Witness ==
    \E r \in inflight :
        /\ r.pc = "save_otp"
        /\ r.user.id \in DOMAIN users
        /\ users[r.user.id].otp = None
        /\ users[r.user.id].otp_created_at = None
        /\ \E o \in GeneratedCodes :
              VerifyOutcome(users, now, o, users[r.user.id].email).msg = "invalid_or_expired"

\* C19: an UpdateAccountInfo changes at most full_name and email of the calling
\* user's record and no other record; is_verified, otp, otp_created_at and the
\* password hash stay as they were, so a verified caller who changes the email
\* is still verified and logs in with the new email and the same password.
C19_UpdateChangesOnlyNameAndEmail ==
    \A s \in sessions, n \in Names \cup {NotPresent}, e \in Emails \cup {NotPresent} :
        IsAuthenticated(users, s)
        => LET before == users[s.uid]
               after == UpdateEffect(users, s, n, e)
           IN  /\ DOMAIN after = DOMAIN users
               /\ \A i \in DOMAIN users \ {s.uid} : after[i] = users[i]
               /\ after[s.uid] = [before EXCEPT !.full_name = after[s.uid].full_name,
                                                !.email = after[s.uid].email]
               /\ (/\ UpdateOutcome(users, s, e).status = 200
                   /\ e # NotPresent
                   /\ before.is_verified)
                  => /\ after[s.uid].email = e
                     /\ after[s.uid].is_verified
                     /\ after[s.uid].otp = before.otp
                     /\ after[s.uid].otp_created_at = before.otp_created_at
                     /\ \A p \in Passwords :
                           check_password(p, before.password)
                           => LoginOutcome(after, e, p).status = 200

\* A verified user's email has been changed by UpdateAccountInfo (a reset token
\* mailed earlier still carries the old one) and Login accepts the new email.
C19_Witness ==
    \E t \in mail :
        /\ t.uid \in DOMAIN users
        /\ users[t.uid].email # t.email
        /\ users[t.uid].password = t.password
        /\ users[t.uid].is_verified
        /\ \E p \in Passwords :
              LoginOutcome(users, users[t.uid].email, p).status = 200

====
